---- MODULE Spec2Model ----
(***************************************************************************)
(* Block convolution engine of src/src/fast_convolver.rs (FastConvolver),  *)
(* RingBuffer of src/src/ring_buffer.rs, CombFilter of                     *)
(* src/src/comb_filter.rs and Vibrato of src/src/vibrato.rs, each driven   *)
(* by harnesses of its own.                                                *)
(* Samples are integers, so that sums and products are exact; the forward/ *)
(* inverse transform pair of the frequency path is the exact circular      *)
(* convolution of its two zero-padded operands.  Vec indices are 0-based   *)
(* in the source and 1-based in the sequences below.                       *)
(***************************************************************************)
EXTENDS Integers, Sequences, FiniteSets, TLC

\* ---------------------------------------------------------------- bounds
MaxIR       == 7    \* longest impulse response
MaxBlock    == 2    \* largest block size
MaxBlocks   == 2    \* longest stream, in blocks
MaxMany     == 2    \* most blocks handed to one process call
MaxLinearIR == 3    \* longest impulse response of the linearity harness

\* ---------------------------------------------------------------- input values
Coefs   == {0, 1, 2}    \* impulse-response coefficients
Samples == {0, 1}       \* input samples
Fills   == {0, 1}       \* what an output slice holds in each slot on entry
Scalars == {0, 1, 2}    \* scalars of the linearity harness

\* ---------------------------------------------------------------- helpers
Zeros(n) == [i \in 1..n |-> 0]

Fill(n, v) == [i \in 1..n |-> v]

Min(a, b) == IF a < b THEN a ELSE b

IsPowerOfTwo(n) == n \in {1, 2, 4, 8, 16, 32, 64}

Modes == {"TimeDomain", "FrequencyDomain"}

\* slice.chunks(size): the i-th chunk (0-based) and the number of chunks
ChunkCount(s, size) == (Len(s) + size - 1) \div size

Chunk(s, size, i) == SubSeq(s, i * size + 1, Min((i + 1) * size, Len(s)))

\* ---------------------------------------------------------------- engine
\* Faulty variant of new: the buffer is one block shorter
new_one_block_short(impulse_response, mode, max_block_size) ==
    [ buffer           |-> Zeros((Len(impulse_response) \div max_block_size + 1) * max_block_size),
      impulse_response |-> impulse_response,
      block_size       |-> max_block_size,
      mode             |-> mode,
      fft              |-> max_block_size * 2,
      ifft             |-> max_block_size * 2 ]

\* FastConvolver::new
new(impulse_response, mode, max_block_size) ==
    [ buffer           |-> Zeros((Len(impulse_response) \div max_block_size + 2) * max_block_size),
      impulse_response |-> impulse_response,
      block_size       |-> max_block_size,
      mode             |-> mode,
      fft              |-> max_block_size * 2,
      ifft             |-> max_block_size * 2 ]

\* FastConvolver::_reset
_reset(self) ==
    [self EXCEPT !.buffer = << >>, !.impulse_response = << >>]

\* FastConvolver::get_output_tail_size
get_output_tail_size(self) ==
    Len(self.impulse_response) \div self.block_size + 2 * self.block_size

\* The running state of one process call: the engine's buffer, the caller's
\* output slice, and whether an index went out of range (a panic).
CallState(buffer, output) == [buffer |-> buffer, output |-> output, panic |-> FALSE]

\* One pass of the loop body of add_buffer (lines 47-50)
add_buffer_step(st, idx, block_size) ==
    LET s1 == IF idx < block_size
              THEN IF idx < Len(st.buffer) /\ idx < Len(st.output)
                   THEN [st EXCEPT !.output[idx + 1] = st.buffer[idx + 1]]
                   ELSE [st EXCEPT !.panic = TRUE]
              ELSE st
    IN  IF s1.panic THEN s1
        ELSE IF idx + block_size < Len(s1.buffer)
             THEN [s1 EXCEPT !.buffer[idx + 1] = s1.buffer[idx + block_size + 1]]
             ELSE [s1 EXCEPT !.panic = TRUE]

RECURSIVE add_buffer_loop(_, _, _, _)
add_buffer_loop(st, idx, stop, block_size) ==
    IF idx >= stop \/ st.panic THEN st
    ELSE add_buffer_loop(add_buffer_step(st, idx, block_size), idx + 1, stop, block_size)

\* FastConvolver::add_buffer
add_buffer(self, output) ==
    LET length == get_output_tail_size(self)
    IN  add_buffer_loop(CallState(self.buffer, output), 0,
                        length - self.block_size, self.block_size)

\* Faulty variant of accumulate: the buffer is indexed by index, not by
\* index - output_len
accumulate_unshifted(st, index, value, output_len) ==
    IF st.panic THEN st
    ELSE IF index < output_len
         THEN [st EXCEPT !.output[index + 1] = @ + value]
         ELSE IF index < Len(st.buffer)
              THEN [st EXCEPT !.buffer[index + 1] = @ + value]
              ELSE [st EXCEPT !.panic = TRUE]

\* The if/else of lines 78-82 and 120-124: a contribution goes to the output
\* slice when it lands inside it, to the buffer otherwise.
accumulate(st, index, value, output_len) ==
    IF st.panic THEN st
    ELSE IF index < output_len
         THEN [st EXCEPT !.output[index + 1] = @ + value]
         ELSE IF index - output_len < Len(st.buffer)
              THEN [st EXCEPT !.buffer[index - output_len + 1] = @ + value]
              ELSE [st EXCEPT !.panic = TRUE]

\* Faulty variant of product: sample*sample
product_squared(sample, ir_sample) == sample * sample

\* The product added by the inner loop of time_convolve (lines 79 and 81)
product(sample, ir_sample) == sample * ir_sample

\* FastConvolver::time_convolve: k runs over the pairs (idx1, idx2) in loop order
RECURSIVE time_convolve_loop(_, _, _, _, _, _)
time_convolve_loop(input, ir, st, start_idx, output_len, k) ==
    IF k >= Len(input) * Len(ir) \/ st.panic THEN st
    ELSE LET idx1 == k \div Len(ir)
             idx2 == k % Len(ir)
             index == start_idx + idx1 + idx2
         IN  time_convolve_loop(input, ir,
                 accumulate(st, index, product(input[idx1 + 1], ir[idx2 + 1]), output_len),
                 start_idx, output_len, k + 1)

time_convolve(input, ir, st, start_idx, output_len) ==
    time_convolve_loop(input, ir, st, start_idx, output_len, 0)

\* Lines 98-111: the operand followed by block_size*2 - len zeros
zero_pad(values, block_size) == values \o Zeros(block_size * 2 - Len(values))

RECURSIVE SumProducts(_, _, _, _)
SumProducts(a, b, n, k) ==
    IF k >= Len(a) THEN 0
    ELSE a[k + 1] * b[((n - k) % Len(b)) + 1] + SumProducts(a, b, n, k + 1)

\* Lines 112-117: forward transforms, bin-wise product, unnormalised inverse
\* transform of length fft: len times the circular convolution of the operands.
transform_product(input_values, ir_values, fft) ==
    [n \in 1..Len(input_values) |->
        fft * SumProducts(input_values, ir_values, n - 1, 0)]

\* Faulty variant of normalise: division by block_size, not by block_size*2
normalise_by_block(value, block_size) == value \div block_size

\* Lines 121 and 123: input.re/(block_size as f32 * 2.0)
normalise(value, block_size) == value \div (block_size * 2)

RECURSIVE frequency_convolve_loop(_, _, _, _, _, _)
frequency_convolve_loop(values, st, start_idx, block_size, output_len, idx) ==
    IF idx >= Len(values) \/ st.panic THEN st
    ELSE frequency_convolve_loop(values,
             accumulate(st, start_idx + idx, normalise(values[idx + 1], block_size), output_len),
             start_idx, block_size, output_len, idx + 1)

\* FastConvolver::frequency_convolve
frequency_convolve(input, ir, st, start_idx, block_size, output_len, fft) ==
    LET input_values == zero_pad(input, block_size)
        ir_values    == zero_pad(ir, block_size)
    IN  IF Len(input_values) % fft # 0
        THEN [st EXCEPT !.panic = TRUE]
        ELSE frequency_convolve_loop(transform_product(input_values, ir_values, fft),
                                     st, start_idx, block_size, output_len, 0)

\* Faulty variant of start_index: the input block's own offset is left out
start_index_of_partition(main_idx, ir_idx, block_size) == ir_idx * block_size

\* Lines 60-61: (main_idx+ir_idx) * self.block_size
start_index(main_idx, ir_idx, block_size) == (main_idx + ir_idx) * block_size

\* The body of the two nested loops of process (lines 57-64); k runs over the
\* pairs (main_idx, ir_idx) in loop order.
RECURSIVE process_loop(_, _, _, _, _)
process_loop(self, input, st, output_len, k) ==
    LET ir_chunks == ChunkCount(self.impulse_response, self.block_size)
    IN  IF k >= ChunkCount(input, self.block_size) * ir_chunks \/ st.panic THEN st
        ELSE LET main_idx    == k \div ir_chunks
                 ir_idx      == k % ir_chunks
                 input_block == Chunk(input, self.block_size, main_idx)
                 ir_block    == Chunk(self.impulse_response, self.block_size, ir_idx)
                 start_idx   == start_index(main_idx, ir_idx, self.block_size)
                 next == IF self.mode = "TimeDomain"
                         THEN time_convolve(input_block, ir_block, st, start_idx, output_len)
                         ELSE frequency_convolve(input_block, ir_block, st, start_idx,
                                                 self.block_size, output_len, self.fft)
             IN  process_loop(self, input, next, output_len, k + 1)

\* FastConvolver::process: the call state after the call
process(self, input, output) ==
    process_loop(self, input, add_buffer(self, output), Len(output), 0)

\* FastConvolver::flush: the caller's Vec after the call
flush(self, output) == self.buffer

\* Successive process calls of exactly block_size samples each over a stream
\* whose length is a multiple of the block size; every output slice holds v
\* in each slot on entry.  r is [self, output, panic].
RECURSIVE process_blocks(_, _, _, _)
process_blocks(r, stream, v, k) ==
    IF k >= Len(stream) \div r.self.block_size \/ r.panic THEN r
    ELSE LET st == process(r.self, Chunk(stream, r.self.block_size, k),
                           Fill(r.self.block_size, v))
         IN  process_blocks([self   |-> [r.self EXCEPT !.buffer = st.buffer],
                             output |-> IF st.panic THEN r.output ELSE r.output \o st.output,
                             panic  |-> st.panic],
                            stream, v, k + 1)

\* One process call with the whole input and an output slice of the same
\* length holding v in each slot on entry
process_once(self, input, v) ==
    LET st == process(self, input, Fill(Len(input), v))
    IN  [self   |-> [self EXCEPT !.buffer = st.buffer],
         output |-> IF st.panic THEN << >> ELSE st.output,
         panic  |-> st.panic]

\* ---------------------------------------------------------------- harness
VARIABLES
    convolver,        \* the engines under test, a sequence of FastConvolver
    impulse,          \* the impulse response the engines were built from
    input_signal,     \* per engine or channel, the samples fed to process so far
    output_signal,    \* per engine or channel, the concatenation of the process outputs
    reverb_tail,      \* per engine, the caller's Vec after the flush just made
    panicked,         \* a call went out of range and aborted the program
    op,               \* the last call made
    scalar,           \* the scalar of the linearity harness
    ring_buffer,      \* the RingBuffer under test
    history,          \* what the caller of the RingBuffer or CombFilter has done so far
    comb_filter,      \* the CombFilter under test
    vibrato           \* the Vibrato under test

vars == <<convolver, impulse, input_signal, output_signal, reverb_tail, panicked, op, scalar,
          ring_buffer, history, comb_filter, vibrato>>

\* The objects a harness does not construct
NoRingBuffer == ring_buffer = << >> /\ history = << >>

NoCombFilter == comb_filter = << >>

NoVibrato == vibrato = << >>

NoConvolver ==
    convolver = << >> /\ impulse = << >> /\ reverb_tail = << >> /\ scalar = 0

Engines == 1..Len(convolver)

\* An impulse response of m coefficients: c at index 0, g at index d, 0 elsewhere
TwoTap(m, c, d, g) ==
    [k \in 1..m |-> IF k = 1 THEN c ELSE IF k = d + 1 THEN g ELSE 0]

ImpulseResponsesUpTo(len) ==
    {TwoTap(m, c, d, g) : m \in 1..len, c \in Coefs, d \in 0..(len - 1), g \in Coefs}

ImpulseResponses == ImpulseResponsesUpTo(MaxIR)

\* Radix4::new(max_block_size*2, ..) accepts powers of two only
BlockSizes == {b \in 1..MaxBlock : IsPowerOfTwo(b * 2)}

Blocks(n) == [1..n -> Samples]

InitWith(engines, h, a) ==
    /\ convolver = engines
    /\ impulse = h
    /\ input_signal = [i \in 1..Len(engines) |-> << >>]
    /\ output_signal = [i \in 1..Len(engines) |-> << >>]
    /\ reverb_tail = [i \in 1..Len(engines) |-> << >>]
    /\ panicked = FALSE
    /\ op = [name |-> "new"]
    /\ scalar = a
    /\ NoRingBuffer
    /\ NoCombFilter
    /\ NoVibrato

\* One engine per mode, built from the same impulse response and block size
Init ==
    \E h \in ImpulseResponses, b \in BlockSizes :
        InitWith(<<new(h, "TimeDomain", b), new(h, "FrequencyDomain", b)>>, h, 1)

\* Engine i has consumed inputs[i]; results[i] is [self, output, panic].  A
\* call that panics aborts the program: the streams record completed calls.
Consume(inputs, results, call) ==
    /\ convolver' = [i \in Engines |-> results[i].self]
    /\ panicked' = \E i \in Engines : results[i].panic
    /\ input_signal' = IF panicked' THEN input_signal
                       ELSE [i \in Engines |-> input_signal[i] \o inputs[i]]
    /\ output_signal' = IF panicked' THEN output_signal
                        ELSE [i \in Engines |-> output_signal[i] \o results[i].output]
    /\ reverb_tail' = [i \in Engines |-> << >>]
    /\ op' = call
    /\ UNCHANGED <<impulse, scalar, ring_buffer, history, comb_filter, vibrato>>

BlockSize == convolver[1].block_size

Room(samples, blocks) == Len(input_signal[1]) + samples <= blocks * BlockSize

\* process(&input, &mut output) with exactly block_size samples each
Process ==
    /\ ~panicked
    /\ Room(BlockSize, MaxBlocks)
    /\ \E x \in Blocks(BlockSize), v \in Fills :
          \E results \in {[i \in Engines |-> process_once(convolver[i], x, v)]} :
              Consume([i \in Engines |-> x], results, [name |-> "process"])

\* flush(&mut output) with the Vec main.rs and the tests pass:
\* vec![0.0; get_output_tail_size()]
Flush ==
    /\ ~panicked
    /\ ~(op.name = "flush" /\ op.again)
    /\ reverb_tail' = [i \in Engines |->
            flush(convolver[i], Zeros(get_output_tail_size(convolver[i])))]
    /\ op' = [name |-> "flush", again |-> op.name = "flush"]
    /\ UNCHANGED <<convolver, impulse, input_signal, output_signal, panicked, scalar,
                   ring_buffer, history, comb_filter, vibrato>>

\* _reset()
Reset ==
    /\ ~panicked
    /\ op.name # "reset"
    /\ convolver' = [i \in Engines |-> _reset(convolver[i])]
    /\ reverb_tail' = [i \in Engines |-> << >>]
    /\ op' = [name |-> "reset"]
    /\ UNCHANGED <<impulse, input_signal, output_signal, panicked, scalar,
                   ring_buffer, history, comb_filter, vibrato>>

Next == Process \/ Flush \/ Reset

Spec == Init /\ [][Next]_vars

\* ---------------------------------------------------------------- identity harness
Identity(m) == [k \in 1..m |-> IF k = 1 THEN 1 ELSE 0]

\* One engine per mode, built from the same identity impulse response
InitIdentity ==
    \E m \in 1..MaxIR, b \in BlockSizes :
        InitWith(<<new(Identity(m), "TimeDomain", b), new(Identity(m), "FrequencyDomain", b)>>,
                 Identity(m), 1)

\* process with exactly one block; the output slice holds v on entry
ProcessBlock ==
    /\ ~panicked
    /\ Room(BlockSize, MaxBlocks + 1)
    /\ \E x \in Blocks(BlockSize), v \in Fills :
          \E results \in {[i \in Engines |-> process_once(convolver[i], x, v)]} :
              Consume([i \in Engines |-> x], results,
                      [name |-> "process", len |-> BlockSize, fill |-> v])

\* process with several blocks in one call, as main.rs and test_trial call
\* it; the output slice has the length of the input and holds v on entry
ProcessMany ==
    /\ ~panicked
    /\ \E k \in 2..MaxMany :
          /\ Room(k * BlockSize, MaxBlocks + 1)
          /\ \E x \in Blocks(k * BlockSize), v \in Fills :
                \E results \in {[i \in Engines |-> process_once(convolver[i], x, v)]} :
                    Consume([i \in Engines |-> x], results,
                            [name |-> "process", len |-> k * BlockSize, fill |-> v])

NextIdentity == ProcessBlock \/ ProcessMany \/ Flush

SpecIdentity == InitIdentity /\ [][NextIdentity]_vars

\* ---------------------------------------------------------------- block-size harness
\* Two engines of one mode, built from the same impulse response with two
\* block sizes, the smaller dividing the larger
InitBlockSize ==
    \E h \in ImpulseResponses, mode \in Modes, b1 \in BlockSizes, b2 \in BlockSizes :
        /\ b1 < b2 /\ b2 % b1 = 0
        /\ InitWith(<<new(h, mode, b1), new(h, mode, b2)>>, h, 1)

\* The next samples of the stream, as many as the larger block size: each
\* engine takes them block by block at its own block size
ProcessStream ==
    /\ ~panicked
    /\ op.name # "flush"
    /\ Len(input_signal[1]) + convolver[2].block_size <= MaxBlocks * convolver[2].block_size
    /\ \E x \in Blocks(convolver[2].block_size) :
          \E results \in {[i \in Engines |->
                  process_blocks([self |-> convolver[i], output |-> << >>, panic |-> FALSE],
                                 x, 1, 0)]} :
              Consume([i \in Engines |-> x], results, [name |-> "process"])

\* The flush that ends the stream
FlushStream ==
    /\ op.name # "flush"
    /\ Flush

NextBlockSize == ProcessStream \/ FlushStream

SpecBlockSize == InitBlockSize /\ [][NextBlockSize]_vars

\* ---------------------------------------------------------------- linearity harness
Scaled(a, x1, x2) == [k \in 1..Len(x1) |-> a * x1[k] + x2[k]]

\* Per mode three engines built alike: they are fed x1, x2 and a*x1 + x2,
\* x1 any block and x2 a constant block
InitLinear ==
    \E h \in ImpulseResponsesUpTo(MaxLinearIR), b \in BlockSizes, a \in Scalars :
        InitWith(<<new(h, "TimeDomain", b), new(h, "TimeDomain", b), new(h, "TimeDomain", b),
                   new(h, "FrequencyDomain", b), new(h, "FrequencyDomain", b),
                   new(h, "FrequencyDomain", b)>>, h, a)

ProcessLinear ==
    /\ ~panicked
    /\ op.name # "flush"
    /\ Room(BlockSize, MaxBlocks)
    /\ \E x1 \in Blocks(BlockSize), x2 \in {Fill(BlockSize, v) : v \in Samples} :
          \E inputs \in {[i \in Engines |->
                  IF i % 3 = 1 THEN x1 ELSE IF i % 3 = 2 THEN x2 ELSE Scaled(scalar, x1, x2)]} :
              \E results \in {[i \in Engines |-> process_once(convolver[i], inputs[i], 1)]} :
                  Consume(inputs, results, [name |-> "process"])

NextLinear == ProcessLinear \/ FlushStream

SpecLinear == InitLinear /\ [][NextLinear]_vars

\* ---------------------------------------------------------------- reference
\* Sample n (0-based) of the linear convolution of h with x:
\* the sum over k of h[k]*x[n-k]
RECURSIVE ConvolutionSum(_, _, _, _)
ConvolutionSum(h, x, n, k) ==
    IF k >= Len(h) THEN 0
    ELSE (IF n - k >= 0 /\ n - k < Len(x) THEN h[k + 1] * x[n - k + 1] ELSE 0)
         + ConvolutionSum(h, x, n, k + 1)

Convolution(h, x, n) == ConvolutionSum(h, x, n, 0)

\* Engine i still holds the impulse response it was built from
NotReset(i) == convolver[i].impulse_response = impulse

AllZero(s) == \A k \in 1..Len(s) : s[k] = 0

\* ---------------------------------------------------------------- claims
\* C1: the process outputs of a stream fed block by block, followed by the
\* flushed tail, are the linear convolution of the impulse response with the
\* stream: output sample n is the sum over k of IR[k]*x[n-k], and the first
\* M-1 flushed samples continue that sequence.
C1_FullConvolution ==
    \A i \in Engines :
        (NotReset(i) /\ ~panicked) =>
            /\ \A n \in 1..Len(output_signal[i]) :
                  output_signal[i][n] = Convolution(impulse, input_signal[i], n - 1)
            /\ op.name = "flush" =>
                  \A k \in 1..(Len(impulse) - 1) :
                      /\ k <= Len(reverb_tail[i])
                      /\ reverb_tail[i][k] =
                            Convolution(impulse, input_signal[i], Len(input_signal[i]) + k - 1)

\* C2: get_output_tail_size() is M - 1, M the length of the impulse response
\* the engine was built from, after any sequence of process, flush and reset.
C2_TailSize ==
    \A i \in Engines : get_output_tail_size(convolver[i]) = Len(impulse) - 1

\* C3: the TimeDomain engine and the FrequencyDomain engine, built from the
\* same impulse response and block size and fed the same blocks, have returned
\* the same output blocks and return the same flushed tail.
C3_ModeEquivalence ==
    /\ output_signal[1] = output_signal[2]
    /\ reverb_tail[1] = reverb_tail[2]

C3_Witness ==
    /\ convolver[1].mode = "TimeDomain" /\ convolver[2].mode = "FrequencyDomain"
    /\ BlockSize = 2
    /\ Len(input_signal[1]) = 2 * BlockSize
    /\ op.name = "flush"
    /\ ~AllZero(reverb_tail[2])
    /\ \E n \in 1..Len(output_signal[2]) : output_signal[2][n] > 1

\* The impulse response is 1 at index 0, g at index block_size, 0 elsewhere
DelayedGain(g) ==
    /\ Len(impulse) > BlockSize
    /\ \A k \in 1..Len(impulse) :
          impulse[k] = IF k = 1 THEN 1 ELSE IF k = BlockSize + 1 THEN g ELSE 0

\* C5: with IR = 1 at index 0 and g at index B, one block x processed on a
\* fresh engine comes back as x, the first B flushed samples are x*g and the
\* later flushed samples are 0, in both modes.
C5_DelayedGain ==
    \A g \in Coefs, i \in Engines :
        (DelayedGain(g) /\ NotReset(i) /\ Len(input_signal[i]) = BlockSize) =>
            /\ output_signal[i] = input_signal[i]
            /\ op.name = "flush" =>
                  /\ Len(reverb_tail[i]) >= BlockSize
                  /\ \A k \in 1..Len(reverb_tail[i]) :
                        reverb_tail[i][k] =
                            IF k <= BlockSize THEN input_signal[i][k] * g ELSE 0

C5_Witness ==
    /\ DelayedGain(2)
    /\ BlockSize = 2
    /\ input_signal[1] = <<1, 1>>
    /\ NotReset(1) /\ NotReset(2)
    /\ op.name = "flush"
    /\ Len(reverb_tail[2]) > BlockSize

\* C8: a flush call writes at most min(len(output_buffer), remaining_tail)
\* samples, and the remaining tail is never more than M - 1 samples.
C8_FlushCount ==
    op.name = "flush" =>
        \A i \in Engines :
            Len(reverb_tail[i]) <=
                Min(get_output_tail_size(convolver[i]), Len(impulse) - 1)

\* C9: a flush call that follows a flush which delivered the whole tail
\* delivers only zeros.
C9_FlushAgainZeros ==
    (op.name = "flush" /\ op.again) => \A i \in Engines : AllZero(reverb_tail[i])

\* C10: after reset() every slot of the buffer is zero, its capacity, the
\* impulse response and the block size are as constructed: the engine is in
\* the state of a freshly constructed one.
C10_ResetLikeFresh ==
    op.name = "reset" =>
        \A i \in Engines :
            convolver[i] = new(impulse, convolver[i].mode, convolver[i].block_size)

IsIdentity(h) == h = Identity(Len(h))

LastSamples(s, n) == SubSeq(s, Len(s) - n + 1, Len(s))

ReadOrZero(s, k) == IF k <= Len(s) THEN s[k] ELSE 0

Max(a, b) == IF a > b THEN a ELSE b

\* C6: one stream fed block by block to two engines that differ only in their
\* block size yields the same process outputs and the same flushed tail
\* (positions past the end of a tail read as zero).
C6_BlockSizeInvariance ==
    /\ output_signal[1] = output_signal[2]
    /\ op.name = "flush" =>
          \A k \in 1..Max(Len(reverb_tail[1]), Len(reverb_tail[2])) :
              ReadOrZero(reverb_tail[1], k) = ReadOrZero(reverb_tail[2], k)

\* C7: in each mode, the output blocks and the flushed tail obtained for the
\* stream a*x1 + x2 are a times those obtained for x1 plus those for x2.
C7_Linearity ==
    \A m \in {0, 3} :
        /\ output_signal[m + 3] = Scaled(scalar, output_signal[m + 1], output_signal[m + 2])
        /\ reverb_tail[m + 3] = Scaled(scalar, reverb_tail[m + 1], reverb_tail[m + 2])

C7_Witness ==
    /\ scalar = 2
    /\ BlockSize = 2
    /\ Len(impulse) = 3
    /\ Len(input_signal[1]) = 2 * BlockSize
    /\ input_signal[1] = <<1, 0, 1, 1>>
    /\ input_signal[2] = <<0, 0, 1, 1>>
    /\ op.name = "flush"
    /\ ~AllZero(reverb_tail[1]) /\ ~AllZero(reverb_tail[5])
    /\ convolver[3].mode = "TimeDomain" /\ convolver[6].mode = "FrequencyDomain"

\* ---------------------------------------------------------------- call harness
MaxCallIR == 3    \* longest impulse response of the call harness

\* FastConvolver::new aborts instead of returning: Radix4::new (lines 22-23)
\* asserts that its length is a power of two, and line 25 divides by
\* max_block_size.
new_panics(max_block_size) ==
    ~IsPowerOfTwo(max_block_size * 2) \/ max_block_size = 0

\* No engine yet: the program is about to call FastConvolver::new
InitCalls ==
    \E h \in ImpulseResponsesUpTo(MaxCallIR) :
        /\ convolver = << >>
        /\ impulse = h
        /\ input_signal = << << >> >>
        /\ output_signal = << << >> >>
        /\ reverb_tail = << << >> >>
        /\ panicked = FALSE
        /\ op = [name |-> "start"]
        /\ scalar = 1
        /\ NoRingBuffer
        /\ NoCombFilter
        /\ NoVibrato

\* FastConvolver::new(impulse, mode, b) with any block size
Construct ==
    /\ op.name = "start"
    /\ \E mode \in Modes, b \in 0..(MaxBlock + 1) :
          /\ convolver' = IF new_panics(b) THEN << >> ELSE <<new(impulse, mode, b)>>
          /\ panicked' = new_panics(b)
          /\ op' = [name |-> "new", mode |-> mode, max_block_size |-> b,
                    result |-> IF new_panics(b) THEN "panic" ELSE "engine"]
    /\ UNCHANGED <<impulse, input_signal, output_signal, reverb_tail, scalar,
                   ring_buffer, history, comb_filter, vibrato>>

\* process(&input, &mut output) with slices of any lengths, the output slice
\* zero-filled; op.before is the buffer on entry
ProcessSlices ==
    /\ ~panicked
    /\ convolver # << >>
    /\ \E n \in 0..(MaxMany * BlockSize), m \in 0..(MaxMany * BlockSize) :
          /\ Room(n, MaxBlocks)
          /\ Len(output_signal[1]) + m <= MaxBlocks * BlockSize
          /\ \E x \in Blocks(n) :
                \E st \in {process(convolver[1], x, Zeros(m))} :
                    /\ convolver' = <<[convolver[1] EXCEPT !.buffer = st.buffer]>>
                    /\ panicked' = st.panic
                    /\ input_signal' = IF st.panic THEN input_signal
                                       ELSE <<input_signal[1] \o x>>
                    /\ output_signal' = IF st.panic THEN output_signal
                                        ELSE <<output_signal[1] \o st.output>>
                    /\ op' = [name |-> "process", input_len |-> n, output_len |-> m,
                              result |-> IF st.panic THEN "panic" ELSE "ok",
                              before |-> convolver[1].buffer]
    /\ reverb_tail' = << << >> >>
    /\ UNCHANGED <<impulse, scalar, ring_buffer, history, comb_filter, vibrato>>

FlushBuilt == convolver # << >> /\ Flush

NextCalls == Construct \/ ProcessSlices \/ FlushBuilt

SpecCalls == InitCalls /\ [][NextCalls]_vars

\* C11: constructing an engine with block size 0, or in frequency mode with a
\* block size that is not a power of two, returns a ConfigError value: no
\* engine is produced and the program does not abort.
C11_ConfigError ==
    (op.name = "new" /\ (\/ op.max_block_size = 0
                         \/ op.mode = "FrequencyDomain" /\ ~IsPowerOfTwo(op.max_block_size)))
        => (op.result = "ConfigError" /\ ~panicked /\ convolver = << >>)

\* C12: process with an input whose length differs from the block size fails
\* with LengthMismatch instead of processing, truncating or padding it.
C12_LengthMismatch ==
    (op.name = "process" /\ op.input_len # BlockSize) => op.result = "LengthMismatch"

\* C13: a process or flush call that fails leaves the accumulation buffer
\* exactly as it was before the call.
C13_FailureLeavesBuffer ==
    (op.name = "process" /\ op.result # "ok") => convolver[1].buffer = op.before

\* ---------------------------------------------------------------- ring buffer
\* RingBuffer<T> of src/src/ring_buffer.rs with T::default() = 0.  An operation
\* yields [self, value, panic]: the buffer after it, what it returns, and
\* whether an index or a remainder went out of range.
MaxCapacity == 3    \* largest capacity

RingValues == {1, 2}    \* values pushed and put

\* RingBuffer::new
RingBuffer_new(capacity) == [buffer |-> Zeros(capacity), head |-> 0, tail |-> 0]

\* RingBuffer::capacity
RingBuffer_capacity(self) == Len(self.buffer)

Returned(self, value) == [self |-> self, value |-> value, panic |-> FALSE]

Panicked(self) == [self |-> self, value |-> 0, panic |-> TRUE]

\* Faulty variant of RingBuffer_reset: the slots keep their values
RingBuffer_reset_indices(self) == [self EXCEPT !.head = 0, !.tail = 0]

\* RingBuffer::reset
RingBuffer_reset(self) ==
    [buffer |-> Zeros(Len(self.buffer)), head |-> 0, tail |-> 0]

\* RingBuffer::put
RingBuffer_put(self, value) ==
    IF self.head < Len(self.buffer)
    THEN Returned([self EXCEPT !.buffer[self.head + 1] = value], 0)
    ELSE Panicked(self)

\* RingBuffer::peek
RingBuffer_peek(self) ==
    IF self.tail < Len(self.buffer)
    THEN Returned(self, self.buffer[self.tail + 1])
    ELSE Panicked(self)

\* RingBuffer::get
RingBuffer_get(self, offset) ==
    IF RingBuffer_capacity(self) = 0 THEN Panicked(self)
    ELSE Returned(self, self.buffer[((self.tail + offset) % RingBuffer_capacity(self)) + 1])

\* RingBuffer::push
RingBuffer_push(self, value) ==
    IF self.head < Len(self.buffer)
    THEN Returned([self EXCEPT !.buffer[self.head + 1] = value,
                               !.head = (self.head + 1) % RingBuffer_capacity(self)], 0)
    ELSE Panicked(self)

\* Faulty variant of RingBuffer_pop: the read index is not advanced
RingBuffer_pop_in_place(self) ==
    IF self.tail < Len(self.buffer)
    THEN Returned(self, self.buffer[self.tail + 1])
    ELSE Panicked(self)

\* RingBuffer::pop
RingBuffer_pop(self) ==
    IF self.tail < Len(self.buffer)
    THEN Returned([self EXCEPT !.tail = (self.tail + 1) % RingBuffer_capacity(self)],
                  self.buffer[self.tail + 1])
    ELSE Panicked(self)

\* RingBuffer::get_read_index
RingBuffer_get_read_index(self) == self.tail

\* Faulty variant of RingBuffer_set_read_index: the index is stored as given
RingBuffer_set_read_index_raw(self, index) ==
    IF RingBuffer_capacity(self) = 0 THEN Panicked(self)
    ELSE Returned([self EXCEPT !.tail = index], 0)

\* RingBuffer::set_read_index
RingBuffer_set_read_index(self, index) ==
    IF RingBuffer_capacity(self) = 0 THEN Panicked(self)
    ELSE Returned([self EXCEPT !.tail = index % RingBuffer_capacity(self)], 0)

\* RingBuffer::get_write_index
RingBuffer_get_write_index(self) == self.head

\* RingBuffer::set_write_index
RingBuffer_set_write_index(self, index) ==
    IF RingBuffer_capacity(self) = 0 THEN Panicked(self)
    ELSE Returned([self EXCEPT !.head = index % RingBuffer_capacity(self)], 0)

\* Faulty variant of RingBuffer_len: the wrapped case is not handled
RingBuffer_len_unwrapped(self) ==
    IF self.head >= self.tail THEN self.head - self.tail ELSE self.tail - self.head

\* RingBuffer::len
RingBuffer_len(self) ==
    IF self.head >= self.tail
    THEN self.head - self.tail
    ELSE self.head + RingBuffer_capacity(self) - self.tail

\* A fractional offset is num/den; a value returned by get_frac is num/den of
\* the same den.
Offsets(dens, last) == {[num |-> n, den |-> d] : n \in -1..last, d \in dens}

\* offset.trunc() and offset - offset.trunc(), the latter in units of 1/den
Trunc(offset) == offset.num \div offset.den

Fract(offset) == offset.num % offset.den

\* Faulty variant of RingBuffer_get_frac: the two weights are exchanged
RingBuffer_get_frac_swapped(self, offset) ==
    IF offset.num < 0 THEN Panicked(self)
    ELSE IF offset.num >= (RingBuffer_len(self) - 1) * offset.den THEN Returned(self, 0)
    ELSE IF RingBuffer_len(self) = 0 THEN Returned(self, 0)
    ELSE Returned(self,
            Fract(offset)
                * self.buffer[((self.tail + Trunc(offset)) % RingBuffer_capacity(self)) + 1]
            + (offset.den - Fract(offset))
                * self.buffer[((self.tail + Trunc(offset) + 1) % RingBuffer_capacity(self)) + 1])

\* RingBuffer::get_frac; the value is in units of 1/offset.den
RingBuffer_get_frac(self, offset) ==
    IF offset.num < 0 THEN Panicked(self)
    ELSE IF offset.num >= (RingBuffer_len(self) - 1) * offset.den THEN Returned(self, 0)
    ELSE IF RingBuffer_len(self) = 0 THEN Returned(self, 0)
    ELSE Returned(self,
            (offset.den - Fract(offset))
                * self.buffer[((self.tail + Trunc(offset)) % RingBuffer_capacity(self)) + 1]
            + Fract(offset)
                * self.buffer[((self.tail + Trunc(offset) + 1) % RingBuffer_capacity(self)) + 1])

\* ---------------------------------------------------------------- ring buffer harness
\* What the caller sees after a RingBuffer call with result r: op holds the
\* call, its argument, what it returned and the buffer it was made on.
Called(r, name, arg) ==
    /\ ring_buffer' = r.self
    /\ panicked' = r.panic
    /\ op' = [name |-> name, arg |-> arg, value |-> r.value, before |-> ring_buffer]
    /\ UNCHANGED <<convolver, impulse, input_signal, output_signal, reverb_tail, scalar,
                   comb_filter, vibrato>>

Capacity == RingBuffer_capacity(ring_buffer)

\* Indices handed to set_read_index and set_write_index, some >= capacity
Indices == 0..(2 * MaxCapacity + 3)

\* RingBuffer::new(c) with any capacity
InitRing ==
    \E c \in 0..MaxCapacity :
        /\ ring_buffer = RingBuffer_new(c)
        /\ history = [capacity |-> c]
        /\ op = [name |-> "new", arg |-> c, value |-> 0, before |-> << >>]
        /\ panicked = FALSE
        /\ input_signal = << >>
        /\ output_signal = << >>
        /\ NoConvolver
        /\ NoCombFilter
        /\ NoVibrato

Push ==
    /\ ~panicked
    /\ \E v \in RingValues : Called(RingBuffer_push(ring_buffer, v), "push", v)
    /\ UNCHANGED history

Pop ==
    /\ ~panicked
    /\ Called(RingBuffer_pop(ring_buffer), "pop", 0)
    /\ UNCHANGED history

Put ==
    /\ ~panicked
    /\ \E v \in RingValues : Called(RingBuffer_put(ring_buffer, v), "put", v)
    /\ UNCHANGED history

Peek ==
    /\ ~panicked
    /\ Called(RingBuffer_peek(ring_buffer), "peek", 0)
    /\ UNCHANGED history

Get ==
    /\ ~panicked
    /\ \E i \in Indices : Called(RingBuffer_get(ring_buffer, i), "get", i)
    /\ UNCHANGED history

SetReadIndex ==
    /\ ~panicked
    /\ \E i \in Indices :
          Called(RingBuffer_set_read_index(ring_buffer, i), "set_read_index", i)
    /\ UNCHANGED history

SetWriteIndex ==
    /\ ~panicked
    /\ \E i \in Indices :
          Called(RingBuffer_set_write_index(ring_buffer, i), "set_write_index", i)
    /\ UNCHANGED history

ResetRing ==
    /\ ~panicked
    /\ Called(Returned(RingBuffer_reset(ring_buffer), 0), "reset", 0)
    /\ UNCHANGED history

GetFrac ==
    /\ ~panicked
    /\ \E offset \in Offsets({1, 4}, 4 * MaxCapacity) :
          Called(RingBuffer_get_frac(ring_buffer, offset), "get_frac", offset)
    /\ UNCHANGED history

NextRing ==
    \/ Push \/ Pop \/ Put \/ Peek \/ Get
    \/ SetReadIndex \/ SetWriteIndex \/ ResetRing \/ GetFrac

SpecRing == InitRing /\ [][NextRing]_vars

\* C16: after reset(), whatever came before, the read index and the write
\* index are 0, every slot read through get(i) for i in 0..capacity is the
\* default value, and the capacity is unchanged.
C16_ResetState ==
    op.name = "reset" =>
        /\ ~panicked
        /\ RingBuffer_get_read_index(ring_buffer) = 0
        /\ RingBuffer_get_write_index(ring_buffer) = 0
        /\ \A i \in 0..(Capacity - 1) :
              /\ ~RingBuffer_get(ring_buffer, i).panic
              /\ RingBuffer_get(ring_buffer, i).value = 0
        /\ Capacity = history.capacity

\* reset() on a buffer whose indices had moved and whose slots held values
C16_Witness ==
    /\ op.name = "reset"
    /\ op.before.head # 0
    /\ op.before.tail # 0
    /\ op.before.head # op.before.tail
    /\ \A k \in 1..Len(op.before.buffer) : op.before.buffer[k] # 0
    /\ Capacity >= 3

IndicesStored ==
    /\ RingBuffer_get_read_index(ring_buffer) < Capacity
    /\ RingBuffer_get_write_index(ring_buffer) < Capacity
    /\ op.name = "set_read_index" =>
          /\ ~panicked
          /\ Capacity > 0 => RingBuffer_get_read_index(ring_buffer) = op.arg % Capacity
    /\ op.name = "set_write_index" =>
          /\ ~panicked
          /\ Capacity > 0 => RingBuffer_get_write_index(ring_buffer) = op.arg % Capacity

\* C17: set_read_index(i) and set_write_index(i) store i modulo the capacity
\* for any i, so that after any sequence of operations get_read_index() and
\* get_write_index() are both strictly less than the capacity.
C17_IndicesBelowCapacity == IndicesStored

\* C17 as amended: the same for a RingBuffer of capacity at least 1.
C17_IndicesBelowPositiveCapacity == history.capacity >= 1 => IndicesStored

\* set_read_index with an index beyond the capacity, stored non-zero, on a
\* buffer whose write index has wrapped
C17_Witness ==
    /\ op.name = "set_read_index"
    /\ op.arg > 2 * Capacity
    /\ Capacity >= 2
    /\ RingBuffer_get_read_index(ring_buffer) # 0
    /\ \A k \in 1..Capacity : ring_buffer.buffer[k] # 0

\* C18: get_frac(offset) panics for a negative offset, returns 0.0 when
\* offset >= len() - 1, and otherwise returns the linear interpolation
\* (1 - f)*get(floor(offset)) + f*get(floor(offset) + 1), f the fractional
\* part of offset.  Values are compared in units of 1/den.
C18_GetFrac ==
    op.name = "get_frac" =>
        LET offset == op.arg
            f      == offset.num % offset.den
            floor  == offset.num \div offset.den
        IN  IF offset.num < 0 THEN panicked
            ELSE IF offset.num >= (RingBuffer_len(ring_buffer) - 1) * offset.den
                 THEN ~panicked /\ op.value = 0
                 ELSE /\ ~panicked
                      /\ op.value = (offset.den - f) * RingBuffer_get(ring_buffer, floor).value
                                    + f * RingBuffer_get(ring_buffer, floor + 1).value

\* An interpolation with unequal weights between two different values, the
\* second read from a slot before the read index
C18_Witness ==
    /\ op.name = "get_frac"
    /\ ~panicked
    /\ op.arg.num % op.arg.den = 1
    /\ op.arg.den = 4
    /\ op.arg.num < (RingBuffer_len(ring_buffer) - 1) * op.arg.den
    /\ ring_buffer.tail + (op.arg.num \div op.arg.den) + 1 >= Capacity
    /\ RingBuffer_peek(ring_buffer).value = 1
    /\ op.value = 5

\* ---------------------------------------------------------------- first-in first-out harness
MaxPushes == 8    \* most values pushed in one run

\* A fresh buffer of capacity c that is to hold d < c pushed values before
\* the first pop, as test_wrapping sets it up.  history.oldest is the oldest
\* value pushed and not yet popped when the last pop was made (none: << >>).
InitFifo ==
    \E c \in 1..MaxCapacity, d \in 0..(MaxCapacity - 1) :
        /\ d < c
        /\ ring_buffer = RingBuffer_new(c)
        /\ history = [capacity |-> c, prefill |-> d, pushed |-> << >>, popped |-> 0,
                      oldest |-> << >>]
        /\ op = [name |-> "new", arg |-> c, value |-> 0, before |-> << >>]
        /\ panicked = FALSE
        /\ input_signal = << >>
        /\ output_signal = << >>
        /\ NoConvolver
        /\ NoCombFilter
        /\ NoVibrato

\* Lines 103-105: the first d pushes
Prefill ==
    /\ ~panicked
    /\ Len(history.pushed) < history.prefill
    /\ \E v \in RingValues :
          /\ Called(RingBuffer_push(ring_buffer, v), "push", v)
          /\ history' = [history EXCEPT !.pushed = Append(@, v)]

\* Line 109: the pop of a step
PopOldest ==
    /\ ~panicked
    /\ Len(history.pushed) >= history.prefill
    /\ Len(history.pushed) < MaxPushes
    /\ op.name # "pop"
    /\ Called(RingBuffer_pop(ring_buffer), "pop", 0)
    /\ history' = IF Len(history.pushed) > history.popped
                  THEN [history EXCEPT !.oldest = <<history.pushed[history.popped + 1]>>,
                                       !.popped = @ + 1]
                  ELSE [history EXCEPT !.oldest = << >>]

\* Line 110: the push of a step
PushNewest ==
    /\ ~panicked
    /\ op.name = "pop"
    /\ \E v \in RingValues :
          /\ Called(RingBuffer_push(ring_buffer, v), "push", v)
          /\ history' = [history EXCEPT !.pushed = Append(@, v)]

NextFifo == Prefill \/ PopOldest \/ PushNewest

SpecFifo == InitFifo /\ [][NextFifo]_vars

PopsOldest ==
    (op.name = "pop" /\ history.oldest # << >>) => (~panicked /\ op.value = history.oldest[1])

\* C14: starting from a fresh buffer of capacity C holding d < C pushed values,
\* every step that pops and then pushes returns the oldest value not yet
\* popped, also after the read and write indices have wrapped past C.
C14_FirstInFirstOut == PopsOldest

\* C14 as amended: the same for 1 <= d < C, where every pop finds a value.
C14_FirstInFirstOutNonEmpty ==
    history.prefill >= 1 =>
        (PopsOldest /\ (op.name = "pop" => history.oldest # << >>))

\* A pop after both indices have wrapped that returns a value differing from
\* the one pushed just before it
C14_Witness ==
    /\ op.name = "pop"
    /\ history.prefill = 2
    /\ Capacity = 3
    /\ history.popped > Capacity + 1
    /\ op.value = 2
    /\ history.pushed[Len(history.pushed)] = 1

\* ---------------------------------------------------------------- push/pop harness
\* A fresh buffer of any capacity; history counts the pushes and the pops.
InitPushPop ==
    \E c \in 0..MaxCapacity :
        /\ ring_buffer = RingBuffer_new(c)
        /\ history = [capacity |-> c, pushes |-> 0, pops |-> 0]
        /\ op = [name |-> "new", arg |-> c, value |-> 0, before |-> << >>]
        /\ panicked = FALSE
        /\ input_signal = << >>
        /\ output_signal = << >>
        /\ NoConvolver
        /\ NoCombFilter
        /\ NoVibrato

Held == history.pushes - history.pops

\* push while fewer than capacity - 1 values are held
PushWithin ==
    /\ ~panicked
    /\ Held < Capacity - 1
    /\ history.pushes < MaxPushes
    /\ \E v \in RingValues :
          /\ Called(RingBuffer_push(ring_buffer, v), "push", v)
          /\ history' = [history EXCEPT !.pushes = @ + 1]

\* pop while a value is held
PopWithin ==
    /\ ~panicked
    /\ Held > 0
    /\ Called(RingBuffer_pop(ring_buffer), "pop", 0)
    /\ history' = [history EXCEPT !.pops = @ + 1]

NextPushPop == PushWithin \/ PopWithin

SpecPushPop == InitPushPop /\ [][NextPushPop]_vars

\* C15: len() equals the number of pushes minus the number of pops after any
\* sequence of push and pop calls on a fresh buffer of capacity C during which
\* that difference stays between 0 and C - 1.
C15_LenIsPushesMinusPops ==
    Held \in 0..(Capacity - 1) => RingBuffer_len(ring_buffer) = Held

\* Two values held across the wrap: the write index is below the read index
C15_Witness ==
    /\ history.pushes > Capacity
    /\ Held = 2
    /\ RingBuffer_get_write_index(ring_buffer) < RingBuffer_get_read_index(ring_buffer)
    /\ RingBuffer_len(ring_buffer) = 2

\* ---------------------------------------------------------------- comb filter
\* CombFilter of src/src/comb_filter.rs.  Seconds and gains are counted in
\* tenths (a delay of 5 is 0.5 s, a gain of 5 is 0.5) and samples are integers
\* that are multiples of a power of ten, so that gain*sample is exact.  A
\* delay line is ringbuffer::AllocRingBuffer, a bounded queue kept as the
\* sequence of its elements, oldest first, with its capacity in
\* self.capacity: peek reads the oldest element, dequeue removes it, push
\* appends and drops the oldest element of a full queue.
FilterTypes == {"FIR", "IIR"}

FilterParams == {"Gain", "Delay"}

\* (seconds * sample_rate_hz) as usize: truncated, and 0 for a negative product
SamplesOf(seconds, sample_rate_hz) ==
    IF seconds <= 0 THEN 0 ELSE (seconds * sample_rate_hz) \div 10

\* AllocRingBuffer::push
AllocRingBuffer_push(line, capacity, value) ==
    IF Len(line) >= capacity THEN Tail(line) \o <<value>> ELSE Append(line, value)

\* CombFilter::reset: every line is cleared and floor(delay*sample_rate_hz)
\* zeros are pushed
CombFilter_reset(self) ==
    [self EXCEPT !.delay_line =
        [i \in 1..self.num_channels |->
            Zeros(Min(SamplesOf(self.delay, self.sample_rate_hz), self.capacity))]]

\* CombFilter::new
CombFilter_new(filter_type, max_delay_secs, sample_rate_hz, num_channels) ==
    CombFilter_reset(
        [ filter_type               |-> filter_type,
          delay                     |-> max_delay_secs,
          delayed_signal_amp_factor |-> 5,
          sample_rate_hz            |-> sample_rate_hz,
          num_channels              |-> num_channels,
          capacity                  |-> SamplesOf(max_delay_secs, sample_rate_hz),
          delay_line                |-> [i \in 1..num_channels |-> << >>] ])

\* self.delayed_signal_amp_factor * delayed (lines 66 and 75)
amplify(gain, delayed) == (gain * delayed) \div 10

\* Faulty variant of fed_back: the input sample is fed back in either mode
fed_back_input(filter_type, input_sample, output_sample) == input_sample

\* Faulty variant of fed_back: the output sample is fed back in either mode
fed_back_output(filter_type, input_sample, output_sample) == output_sample

\* The sample pushed to the delay line: the input sample in FIR mode (line
\* 68), the output sample in IIR mode (line 77)
fed_back(filter_type, input_sample, output_sample) ==
    IF filter_type = "FIR" THEN input_sample ELSE output_sample

\* The body of the inner loop (lines 66-68 and 75-77) on one delay line:
\* the line after it and the output sample
comb_sample(self, line, input_sample) ==
    LET output_sample == input_sample
            + amplify(self.delayed_signal_amp_factor, IF line = << >> THEN 0 ELSE Head(line))
        dequeued == IF line = << >> THEN line ELSE Tail(line)
    IN  [line   |-> AllocRingBuffer_push(dequeued, self.capacity,
                        fed_back(self.filter_type, input_sample, output_sample)),
         sample |-> output_sample]

\* The inner loop over input_channel.iter().zip(output_channel.iter_mut());
\* st is [line, output], k the number of samples done
RECURSIVE comb_channel(_, _, _, _)
comb_channel(self, input_channel, st, k) ==
    IF k >= Min(Len(input_channel), Len(st.output)) THEN st
    ELSE LET r == comb_sample(self, st.line, input_channel[k + 1])
         IN  comb_channel(self, input_channel,
                          [line |-> r.line, output |-> [st.output EXCEPT ![k + 1] = r.sample]],
                          k + 1)

\* CombFilter::process: [self, output, panic] after the call; the call panics
\* when more channels are passed than there are delay lines
CombFilter_process(self, input, output) ==
    LET channels == Min(Len(input), Len(output))
        done == [i \in 1..Min(channels, self.num_channels) |->
                    comb_channel(self, input[i],
                                 [line |-> self.delay_line[i], output |-> output[i]], 0)]
    IN  [self   |-> [self EXCEPT !.delay_line =
                        [i \in 1..self.num_channels |->
                            IF i <= channels THEN done[i].line ELSE self.delay_line[i]]],
         output |-> [i \in 1..Len(output) |->
                        IF i <= Min(channels, self.num_channels)
                        THEN done[i].output ELSE output[i]],
         panic  |-> channels > self.num_channels]

\* Faulty variant of delay_rejected: a negative delay is let through
delay_rejected_above(self, value) == value * self.sample_rate_hz > self.capacity * 10

\* Line 93: value > capacity as f32/sample_rate_hz || value < 0.0
delay_rejected(self, value) ==
    value * self.sample_rate_hz > self.capacity * 10 \/ value < 0

\* CombFilter::set_param: [self, result]
CombFilter_set_param(self, param, value) ==
    IF param = "Gain"
    THEN IF value < 0 \/ value > 10
         THEN [self |-> self, result |-> "Err"]
         ELSE [self |-> [self EXCEPT !.delayed_signal_amp_factor = value], result |-> "Ok"]
    ELSE IF delay_rejected(self, value)
         THEN [self |-> self, result |-> "Err"]
         ELSE [self |-> CombFilter_reset([self EXCEPT !.delay = value]), result |-> "Ok"]

\* CombFilter::get_param
CombFilter_get_param(self, param) ==
    IF param = "Gain" THEN self.delayed_signal_amp_factor ELSE self.delay

\* ---------------------------------------------------------------- comb filter harness
MaxStream == 6    \* longest stream, in samples over all its channels

ChannelCounts == {1, 2}          \* num_channels
Rates == {5, 10}                 \* sample_rate_hz
MaxDelays == {2, 5}              \* max_delay_secs, in tenths
ParamValues == {-1, 2, 11}       \* values handed to set_param, in tenths
CombSamples == {0, 10000000}     \* input samples

Channels == 1..comb_filter.num_channels

\* floor(delay*sample_rate_hz) of the delay in force
DelaySamples == SamplesOf(comb_filter.delay, comb_filter.sample_rate_hz)

\* CombFilter::new with a maximum delay of at least one sample.  history
\* keeps the maximum delay given here, and whether the gain has stayed the
\* same since the stream began.
InitComb ==
    \E filter_type \in FilterTypes, max_delay_secs \in MaxDelays, sample_rate_hz \in Rates,
       num_channels \in ChannelCounts :
        /\ SamplesOf(max_delay_secs, sample_rate_hz) >= 1
        /\ comb_filter = CombFilter_new(filter_type, max_delay_secs, sample_rate_hz, num_channels)
        /\ history = [max_delay_secs |-> max_delay_secs, steady |-> TRUE]
        /\ input_signal = [i \in 1..num_channels |-> << >>]
        /\ output_signal = [i \in 1..num_channels |-> << >>]
        /\ op = [name |-> "new"]
        /\ panicked = FALSE
        /\ NoConvolver
        /\ ring_buffer = << >>
        /\ NoVibrato

\* process(&input, &mut output) with one block of n samples per channel, of
\* any length, in the zero-filled output block ProcessBlocks allocates; the
\* streams followed are those processed with one gain
ProcessComb ==
    /\ history.steady
    /\ \E n \in 1..MaxStream :
          /\ (Len(input_signal[1]) + n) * comb_filter.num_channels <= MaxStream
          /\ \E x \in [Channels -> [1..n -> CombSamples]] :
                \E r \in {CombFilter_process(comb_filter, x, [i \in Channels |-> Zeros(n)])} :
                    /\ comb_filter' = r.self
                    /\ panicked' = r.panic
                    /\ input_signal' = [i \in Channels |-> input_signal[i] \o x[i]]
                    /\ output_signal' = [i \in Channels |-> output_signal[i] \o r.output[i]]
                    /\ op' = [name |-> "process", len |-> n]
    /\ UNCHANGED <<history, convolver, impulse, reverb_tail, scalar, ring_buffer, vibrato>>

\* set_param(param, value).  An accepted delay resets the delay lines: a new
\* stream begins.
SetParam ==
    /\ \E param \in FilterParams, value \in ParamValues :
          \E r \in {CombFilter_set_param(comb_filter, param, value)} :
              /\ comb_filter' = r.self
              /\ op' = [name |-> "set_param", param |-> param, value |-> value,
                        result |-> r.result, before |-> comb_filter]
              /\ IF r.result = "Ok" /\ param = "Delay"
                 THEN /\ input_signal' = [i \in Channels |-> << >>]
                      /\ output_signal' = [i \in Channels |-> << >>]
                      /\ history' = [history EXCEPT !.steady = TRUE]
                 ELSE /\ UNCHANGED <<input_signal, output_signal>>
                      /\ history' = [history EXCEPT !.steady =
                            @ /\ (\/ input_signal[1] = << >>
                                  \/ r.self.delayed_signal_amp_factor
                                        = comb_filter.delayed_signal_amp_factor)]
    /\ UNCHANGED <<panicked, convolver, impulse, reverb_tail, scalar, ring_buffer, vibrato>>

\* reset(): a new stream begins
ResetComb ==
    /\ op.name # "reset"
    /\ comb_filter' = CombFilter_reset(comb_filter)
    /\ input_signal' = [i \in Channels |-> << >>]
    /\ output_signal' = [i \in Channels |-> << >>]
    /\ history' = [history EXCEPT !.steady = TRUE]
    /\ op' = [name |-> "reset"]
    /\ UNCHANGED <<panicked, convolver, impulse, reverb_tail, scalar, ring_buffer, vibrato>>

NextComb == ProcessComb \/ SetParam \/ ResetComb

SpecComb == InitComb /\ [][NextComb]_vars

\* C19: set_param returns Err(InvalidValue) for a Gain below 0 or above 1 and
\* for a Delay that is negative or larger than the maximum delay given at
\* construction, and then the stored gain, the stored delay and the contents
\* of every delay line are left unchanged.
C19_InvalidValueRejected ==
    (/\ op.name = "set_param"
     /\ \/ op.param = "Gain" /\ (op.value < 0 \/ op.value > 10)
        \/ op.param = "Delay" /\ (op.value < 0 \/ op.value > history.max_delay_secs))
        => /\ op.result = "Err"
           /\ CombFilter_get_param(comb_filter, "Gain")
                = CombFilter_get_param(op.before, "Gain")
           /\ CombFilter_get_param(comb_filter, "Delay")
                = CombFilter_get_param(op.before, "Delay")
           /\ comb_filter.delay_line = op.before.delay_line

\* A negative delay rejected in the middle of a stream, after the gain and
\* the delay had been changed, with samples held in both delay lines
C19_Witness ==
    /\ op.name = "set_param"
    /\ op.param = "Delay"
    /\ op.value < 0
    /\ op.result = "Err"
    /\ comb_filter.num_channels = 2
    /\ comb_filter.delay # history.max_delay_secs
    /\ comb_filter.delayed_signal_amp_factor = 2
    /\ \A i \in Channels : \E k \in 1..Len(comb_filter.delay_line[i]) :
          comb_filter.delay_line[i][k] # 0

\* x[n - D], 0 before the stream began (n counts from 1)
Delayed(x, n, d) == IF n > d THEN x[n - d] ELSE 0

\* C20: in FIR mode with a delay of D >= 1 samples and gain g, every channel's
\* output satisfies y[n] = x[n] + g*x[n-D] over the whole stream, whatever
\* way the stream is split into successive process calls.
C20_FirOutput ==
    (comb_filter.filter_type = "FIR" /\ DelaySamples >= 1 /\ history.steady) =>
        \A i \in Channels :
            /\ Len(output_signal[i]) = Len(input_signal[i])
            /\ \A n \in 1..Len(output_signal[i]) :
                  output_signal[i][n] = input_signal[i][n]
                      + amplify(comb_filter.delayed_signal_amp_factor,
                                Delayed(input_signal[i], n, DelaySamples))

\* A two-channel stream split into two blocks of one sample, the last output
\* holding a delayed sample of its own channel only
C20_Witness ==
    /\ comb_filter.filter_type = "FIR"
    /\ comb_filter.num_channels = 2
    /\ history.steady
    /\ op.name = "process"
    /\ op.len = 1
    /\ DelaySamples = 1
    /\ input_signal[1] = <<10000000, 0>>
    /\ input_signal[2] = <<0, 10000000>>
    /\ output_signal[1][2] = 2000000
    /\ output_signal[2][2] = 10000000

\* y[n - D], 0 before the stream began (n counts from 1)
FedBack(y, n, d) == IF n > d THEN y[n - d] ELSE 0

\* C21: in IIR mode with a delay of D >= 1 samples and gain g, every channel's
\* output satisfies y[n] = x[n] + g*y[n-D] over the whole stream, whatever way
\* the stream is split into successive process calls, and each channel uses
\* only its own delay line.
C21_IirOutput ==
    (comb_filter.filter_type = "IIR" /\ DelaySamples >= 1 /\ history.steady) =>
        \A i \in Channels :
            /\ Len(output_signal[i]) = Len(input_signal[i])
            /\ \A n \in 1..Len(output_signal[i]) :
                  output_signal[i][n] = input_signal[i][n]
                      + amplify(comb_filter.delayed_signal_amp_factor,
                                FedBack(output_signal[i], n, DelaySamples))
            /\ comb_filter.delay_line[i]
                  = [k \in 1..DelaySamples |->
                        FedBack(output_signal[i], Len(output_signal[i]) + k, DelaySamples)]

\* A two-channel stream split into blocks of two samples and one: the third
\* output of channel 1 is an output fed back twice, that of channel 2 is its
\* own input
C21_Witness ==
    /\ comb_filter.filter_type = "IIR"
    /\ comb_filter.num_channels = 2
    /\ DelaySamples = 1
    /\ history.steady
    /\ op.name = "process"
    /\ op.len = 1
    /\ input_signal[1] = <<10000000, 0, 0>>
    /\ input_signal[2] = <<0, 0, 10000000>>
    /\ output_signal[1][3] = 400000
    /\ output_signal[2][3] = 10000000

\* ---------------------------------------------------------------- vibrato
\* Vibrato of src/src/vibrato.rs, whose delay lines are RingBuffers.  Seconds
\* and hertz given by the caller are in tenths; the sample rate is in whole
\* hertz.  The LFO is known by what Vibrato calls on it: its wavetable has
\* round(sample_rate_hz/mod_freq) entries, and the entry output_sample
\* returns is chosen by the caller of process below.
VibratoParams == {"ModFreq", "Width"}

\* f32::round of x tenths (half away from zero), then `as usize` (saturating)
RoundTenths(x) == IF x >= 0 THEN (x + 5) \div 10 ELSE 0

\* f32::round of a/b for positive a and b
RoundRatio(a, b) == (2 * a + b) \div (2 * b)

\* lfo::LFO::new(mod_freq, sample_rate_hz)
LFO_new(mod_freq, sample_rate_hz) ==
    [sample_rate_hz |-> sample_rate_hz,
     size           |-> RoundRatio(10 * sample_rate_hz, mod_freq),
     index          |-> 0]

\* LFO::reset
LFO_reset(self) == [self EXCEPT !.index = 0]

\* LFO::modify_mod_freq
LFO_modify_mod_freq(self, mod_freq) ==
    [self EXCEPT !.size = RoundRatio(10 * self.sample_rate_hz, mod_freq)]

\* LFO::output_sample: the next entry of the wavetable
LFO_output_sample(self) == [self EXCEPT !.index = (self.index + 1) % self.size]

\* n times push(value) on a RingBuffer
RECURSIVE push_times(_, _, _)
push_times(line, value, n) ==
    IF n = 0 THEN Returned(line, 0)
    ELSE LET r == RingBuffer_push(line, value)
         IN  IF r.panic THEN r ELSE push_times(r.self, value, n - 1)

\* The loop over the channels in Vibrato::new: set_read_index(0) and
\* set_write_index(len_samples-1)
set_indices(line, len_samples) ==
    LET r == RingBuffer_set_read_index(line, 0)
    IN  IF r.panic THEN r ELSE RingBuffer_set_write_index(r.self, len_samples - 1)

\* Vibrato::new
Vibrato_new(sample_rate_hz, mod_freq, width, num_channels) ==
    LET w == RoundTenths(width * sample_rate_hz)
        len_samples == 2 + w * 3
        lines == [c \in 1..num_channels |-> set_indices(RingBuffer_new(len_samples), len_samples)]
    IN  [self  |-> [sample_rate_hz |-> sample_rate_hz,
                    width          |-> w,
                    num_channels   |-> num_channels,
                    lfo            |-> [c \in 1..num_channels |-> LFO_new(mod_freq, sample_rate_hz)],
                    delay_line     |-> [c \in 1..num_channels |-> lines[c].self]],
         panic |-> \E c \in 1..num_channels : lines[c].panic]

\* Vibrato::reset: every delay line is reset and receives 2 + 3*width
\* defaults, every LFO is reset
Vibrato_reset(self) ==
    LET lines == [c \in 1..self.num_channels |->
                    push_times(RingBuffer_reset(self.delay_line[c]), 0, 2 + 3 * self.width)]
    IN  [self  |-> [self EXCEPT !.delay_line = [c \in 1..self.num_channels |-> lines[c].self],
                                !.lfo = [c \in 1..self.num_channels |-> LFO_reset(self.lfo[c])]],
         panic |-> \E c \in 1..self.num_channels : lines[c].panic]

\* Vibrato::set_param: a value <= 0 is an Err and changes nothing; a new
\* width replaces the delay lines; either parameter ends with reset()
Vibrato_set_param(self, param, value) ==
    IF value <= 0 THEN [self |-> self, result |-> "Err", panic |-> FALSE]
    ELSE LET w == RoundTenths(value * self.sample_rate_hz)
             changed ==
                IF param = "ModFreq"
                THEN [self EXCEPT !.lfo = [c \in 1..self.num_channels |->
                                              LFO_modify_mod_freq(self.lfo[c], value)]]
                ELSE [self EXCEPT !.width = w,
                                  !.delay_line = [c \in 1..self.num_channels |->
                                                     RingBuffer_new(2 + w * 3)]]
             r == Vibrato_reset(changed)
         IN  [self |-> r.self, result |-> "Ok", panic |-> r.panic]

\* One sample of one channel in Vibrato::process: with the modulator in
\* halves, offset = 1 + width + width*modulator is num/2; pop, push(input),
\* get_frac(offset).  The output is in halves as well.
vibrato_sample(line, width, modulator, input_sample) ==
    LET offset == [num |-> 2 + 2 * width + width * modulator, den |-> 2]
        popped == RingBuffer_pop(line)
        pushed == RingBuffer_push(popped.self, input_sample)
        read   == RingBuffer_get_frac(pushed.self, offset)
    IN  IF popped.panic THEN popped
        ELSE IF pushed.panic THEN pushed
        ELSE read

\* Vibrato::process on a block of one sample per channel; modulator[c] is
\* what the LFO of channel c puts out
Vibrato_process(self, input, modulator) ==
    LET done == [c \in 1..self.num_channels |->
                    vibrato_sample(self.delay_line[c], self.width, modulator[c], input[c])]
    IN  [self   |-> [self EXCEPT !.delay_line = [c \in 1..self.num_channels |-> done[c].self],
                                 !.lfo = [c \in 1..self.num_channels |->
                                             LFO_output_sample(self.lfo[c])]],
         output |-> [c \in 1..self.num_channels |-> done[c].value],
         panic  |-> \E c \in 1..self.num_channels : done[c].panic]

\* ---------------------------------------------------------------- vibrato harness
MaxVibrato == 2    \* longest stream of a Vibrato, in samples per channel

VibratoRates == {5, 10}               \* sample rates, in hertz

VibratoValues == {-1, 0, 1, 3}        \* values handed to set_param, in tenths

VibratoWidths == {0, 1}               \* widths handed to new, in tenths of a second

VibratoFreqs == {2, 30}               \* modulation frequencies handed to new, in tenths of a hertz

Modulators == {-2, -1, 0, 2}          \* LFO outputs in halves: -1, -1/2, 0 and 1

VibratoChannels == 1..vibrato.num_channels

\* Vibrato::new
InitVibrato ==
    \E sample_rate_hz \in VibratoRates, mod_freq \in VibratoFreqs, width \in VibratoWidths,
       num_channels \in ChannelCounts :
        \E r \in {Vibrato_new(sample_rate_hz, mod_freq, width, num_channels)} :
            /\ vibrato = r.self
            /\ panicked = r.panic
            /\ input_signal = [c \in 1..num_channels |-> << >>]
            /\ output_signal = [c \in 1..num_channels |-> << >>]
            /\ op = [name |-> "new", param |-> "Width", value |-> width, result |-> "Ok"]
            /\ NoConvolver
            /\ NoRingBuffer
            /\ NoCombFilter

\* process(&input, &mut output) with a block of one sample per channel; the
\* LFOs of the channels are clones in the same phase and put out the same
\* modulator
ProcessVibrato ==
    /\ ~panicked
    /\ Len(input_signal[1]) < MaxVibrato
    /\ \E x \in [VibratoChannels -> Samples], m \in Modulators :
          \E r \in {Vibrato_process(vibrato, x, [c \in VibratoChannels |-> m])} :
              /\ vibrato' = r.self
              /\ panicked' = r.panic
              /\ input_signal' = [c \in VibratoChannels |-> Append(input_signal[c], x[c])]
              /\ output_signal' = [c \in VibratoChannels |-> Append(output_signal[c], r.output[c])]
              /\ op' = [name |-> "process", param |-> "Width", value |-> m, result |-> "Ok"]
    /\ UNCHANGED <<convolver, impulse, reverb_tail, scalar, ring_buffer, history, comb_filter>>

\* set_param(param, value); an accepted value resets the delay lines: a new
\* stream begins
SetParamVibrato ==
    /\ ~panicked
    /\ \E param \in VibratoParams, value \in VibratoValues :
          \E r \in {Vibrato_set_param(vibrato, param, value)} :
              /\ vibrato' = r.self
              /\ panicked' = r.panic
              /\ op' = [name |-> "set_param", param |-> param, value |-> value,
                        result |-> r.result]
              /\ IF r.result = "Ok"
                 THEN /\ input_signal' = [c \in VibratoChannels |-> << >>]
                      /\ output_signal' = [c \in VibratoChannels |-> << >>]
                 ELSE UNCHANGED <<input_signal, output_signal>>
    /\ UNCHANGED <<convolver, impulse, reverb_tail, scalar, ring_buffer, history, comb_filter>>

\* reset(): a new stream begins
ResetVibrato ==
    /\ ~panicked
    /\ op.name # "reset"
    /\ \E r \in {Vibrato_reset(vibrato)} :
          /\ vibrato' = r.self
          /\ panicked' = r.panic
    /\ input_signal' = [c \in VibratoChannels |-> << >>]
    /\ output_signal' = [c \in VibratoChannels |-> << >>]
    /\ op' = [name |-> "reset", param |-> "Width", value |-> 0, result |-> "Ok"]
    /\ UNCHANGED <<convolver, impulse, reverb_tail, scalar, ring_buffer, history, comb_filter>>

NextVibrato == ProcessVibrato \/ SetParamVibrato \/ ResetVibrato

SpecVibrato == InitVibrato /\ [][NextVibrato]_vars

\* C22: after set_param(Width, v) has succeeded with v > 0, the stored width
\* is round(v*sample_rate) and len() of every channel's delay line is
\* 2 + 3*width
C22_DelayLineLen ==
    (op.name = "set_param" /\ op.param = "Width" /\ op.result = "Ok" /\ op.value > 0) =>
        /\ vibrato.width = RoundTenths(op.value * vibrato.sample_rate_hz)
        /\ \A c \in VibratoChannels :
              RingBuffer_len(vibrato.delay_line[c]) = 2 + 3 * vibrato.width

\* ---------------------------------------------------------------- allocation and work
\* Whether a call asks the allocator for memory, and how many loop iterations
\* it makes.  A Vec collected from a non-empty slice is allocated, a push
\* beyond the capacity reallocates, the clone of a non-empty Vec is allocated.

\* time_convolve: two nested loops over slices, no Vec is built
time_convolve_allocates(input, ir) == FALSE

time_convolve_steps(input, ir) == Len(input) * Len(ir)

\* frequency_convolve: input_values and ir_values are collected, then padded
\* by push to 2*block_size entries
frequency_convolve_allocates(input, ir, block_size) ==
    \/ Len(input) > 0 \/ block_size * 2 > Len(input)
    \/ Len(ir) > 0 \/ block_size * 2 > Len(ir)

\* the two collects, the two padding loops, the product loop and the
\* accumulation loop; the transforms are of 2*block_size points
frequency_convolve_steps(input, ir, block_size) ==
    Len(input) + Len(ir) + (block_size * 2 - Len(input)) + (block_size * 2 - Len(ir))
        + block_size * 2 + block_size * 2

\* The (main_idx, ir_idx) pairs of the loops of FastConvolver::process, numbered
\* as process_loop numbers them
Pairs(self, input) ==
    0..(ChunkCount(input, self.block_size)
            * ChunkCount(self.impulse_response, self.block_size) - 1)

input_block_of(self, input, k) ==
    Chunk(input, self.block_size,
          k \div ChunkCount(self.impulse_response, self.block_size))

ir_block_of(self, k) ==
    Chunk(self.impulse_response, self.block_size,
          k % ChunkCount(self.impulse_response, self.block_size))

\* FastConvolver::process: add_buffer builds no Vec
process_allocates(self, input) ==
    \E k \in Pairs(self, input) :
        IF self.mode = "TimeDomain"
        THEN time_convolve_allocates(input_block_of(self, input, k), ir_block_of(self, k))
        ELSE frequency_convolve_allocates(input_block_of(self, input, k), ir_block_of(self, k),
                                          self.block_size)

RECURSIVE steps_from(_, _, _)
steps_from(self, input, k) ==
    IF k \notin Pairs(self, input) THEN 0
    ELSE (IF self.mode = "TimeDomain"
          THEN time_convolve_steps(input_block_of(self, input, k), ir_block_of(self, k))
          ELSE frequency_convolve_steps(input_block_of(self, input, k), ir_block_of(self, k),
                                        self.block_size))
         + steps_from(self, input, k + 1)

\* FastConvolver::process: the iterations of add_buffer, then those of the
\* convolutions
process_steps(self, input) ==
    (get_output_tail_size(self) - self.block_size) + steps_from(self, input, 0)

\* FastConvolver::flush: *output = self.buffer.clone()
flush_allocates(self) == Len(self.buffer) > 0

flush_steps(self) == Len(self.buffer)

\* C23: a process call and a flush call allocate no memory, and the work of
\* the call is what the same call does on an engine just built from the
\* same impulse response and block size, whatever was processed before
C23_NoAllocationConstantWork ==
    /\ (op.name = "process" /\ ~panicked) =>
          \A i \in Engines :
              LET x == LastSamples(input_signal[i], BlockSize)
              IN  /\ ~process_allocates(convolver[i], x)
                  /\ process_steps(convolver[i], x)
                        = process_steps(new(impulse, convolver[i].mode, BlockSize), x)
    /\ op.name = "flush" =>
          \A i \in Engines :
              /\ ~flush_allocates(convolver[i])
              /\ flush_steps(convolver[i])
                    = flush_steps(new(impulse, convolver[i].mode, BlockSize))

\* The sum of the contributions of the samples engine i has consumed that
\* land k samples (0-based) after the end of the last block
Pending(i, k) == Convolution(impulse, input_signal[i], Len(input_signal[i]) + k)

\* C24: after every process call, slot k of the accumulation buffer is the
\* sum of the contributions of the blocks processed so far that land k
\* samples after the end of the block just computed, for every k: nothing is
\* held twice or at a wrong offset.
C24_BufferHoldsPending ==
    (op.name = "process" /\ ~panicked) =>
        \A i \in Engines :
            \A k \in 1..Len(convolver[i].buffer) :
                convolver[i].buffer[k] = Pending(i, k - 1)

\* C25: the drain at the start of process (add_buffer) moves the first B
\* values of the accumulation buffer into the output block, shifts every
\* remaining slot down by B positions and sets the last B slots to zero.
C25_DrainFront ==
    \A i \in Engines :
        (NotReset(i) /\ ~panicked) =>
            \A v \in Fills :
                LET buffer == convolver[i].buffer
                    st     == add_buffer(convolver[i], Fill(BlockSize, v))
                IN  /\ ~st.panic
                    /\ \A k \in 1..BlockSize : st.output[k] = buffer[k]
                    /\ \A k \in 1..(Len(buffer) - BlockSize) : st.buffer[k] = buffer[k + BlockSize]
                    /\ \A k \in (Len(buffer) - BlockSize + 1)..Len(buffer) : st.buffer[k] = 0

\* ---------------------------------------------------------------- buffer indices
Largest(S) == CHOOSE m \in S : \A n \in S : n <= m

\* P = ceil(M/B), the number of partitions of the impulse response
PartitionCount(self) == ChunkCount(self.impulse_response, self.block_size)

\* The largest index = start_idx + idx1 + idx2 of time_convolve, and
\* start_idx + idx of frequency_convolve, over the loops of process
largest_index(self, input) ==
    Largest({start_index(k \div PartitionCount(self), k % PartitionCount(self), self.block_size)
                + (IF self.mode = "TimeDomain"
                   THEN (Len(input_block_of(self, input, k)) - 1)
                            + (Len(ir_block_of(self, k)) - 1)
                   ELSE self.block_size * 2 - 1) : k \in Pairs(self, input)})

\* The largest buffer index add_buffer reads: idx + block_size in its last pass
largest_drained(self) == (get_output_tail_size(self) - self.block_size - 1) + self.block_size

\* C26: on an engine built from M >= 1 coefficients with block size B, fed
\* by process calls of exactly B input and B output samples, in either mode,
\* no call goes outside the buffer: the buffer has at least (P+1)*B slots,
\* P = ceil(M/B), the drain reads inside it, and the largest offset a
\* contribution of a block is written at is at most P*B + B - 1 and inside
\* the buffer.
C26_IndicesInsideBuffer ==
    (\A i \in Engines : NotReset(i)) =>
        /\ ~panicked
        /\ \A i \in Engines :
              LET self == convolver[i]
                  B    == self.block_size
                  P    == PartitionCount(self)
              IN  /\ Len(self.buffer) >= (P + 1) * B
                  /\ largest_drained(self) < Len(self.buffer)
                  /\ \A x \in Blocks(B) :
                        /\ largest_index(self, x) - B <= P * B + B - 1
                        /\ largest_index(self, x) - B < Len(self.buffer)

\* Two blocks went through an engine whose impulse response does not fill its
\* last partition, and the first left a contribution in the last buffer slot
\* a block of the time-domain engine can reach
C26_Witness ==
    /\ op.name = "process" /\ ~panicked
    /\ BlockSize = 2 /\ Len(impulse) = 7 /\ Len(input_signal[1]) = 2 * BlockSize
    /\ \A i \in Engines : NotReset(i)
    /\ largest_index(convolver[1], LastSamples(input_signal[1], BlockSize)) - BlockSize = 5
    /\ largest_index(convolver[2], LastSamples(input_signal[2], BlockSize)) - BlockSize = 7
    /\ convolver[1].buffer[6] # 0 /\ convolver[2].buffer[6] # 0

\* ---------------------------------------------------------------- reconfiguration
\* FastConvolver::_set_block_size (pub).  len() - 1 underflows on an
\* impulse response emptied by _reset: a build with overflow checks panics
\* there, and the harness below keeps the impulse response.
_set_block_size(self, block_size) ==
    IF Len(self.impulse_response) = 0 THEN [self |-> self, panic |-> TRUE]
    ELSE LET len_ir == Len(self.impulse_response) - 1
         IN  [self  |-> [self EXCEPT !.block_size = IF block_size >= len_ir
                                                    THEN block_size ELSE len_ir],
              panic |-> FALSE]

\* The block size handed to new: the transforms planned there keep 2*it
ConstructedBlockSize == convolver[1].fft \div 2

\* One engine per mode, built from the same short impulse response
InitConfigure ==
    \E h \in ImpulseResponsesUpTo(MaxCallIR), b \in BlockSizes :
        InitWith(<<new(h, "TimeDomain", b), new(h, "FrequencyDomain", b)>>, h, 1)

\* _set_block_size(b) with any block size, the one in use included
SetBlockSize ==
    /\ ~panicked
    /\ \E b \in 1..(MaxBlock + 1) :
          \E results \in {[i \in Engines |-> _set_block_size(convolver[i], b)]} :
              /\ convolver' = [i \in Engines |-> results[i].self]
              /\ panicked' = \E i \in Engines : results[i].panic
              /\ op' = [name |-> "_set_block_size", block_size |-> b]
    /\ UNCHANGED <<impulse, input_signal, output_signal, reverb_tail, scalar,
                   ring_buffer, history, comb_filter, vibrato>>

\* process(&input, &mut output) with input and output of the block size
\* given to new or of the block size now in use
ProcessConfigured ==
    /\ ~panicked
    /\ \E n \in {ConstructedBlockSize, BlockSize} :
          /\ Room(n, MaxBlocks)
          /\ \E x \in Blocks(n), v \in Fills :
                \E results \in {[i \in Engines |-> process_once(convolver[i], x, v)]} :
                    Consume([i \in Engines |-> x], results, [name |-> "process", len |-> n])

NextConfigure == SetBlockSize \/ ProcessConfigured \/ Flush

SpecConfigure == InitConfigure /\ [][NextConfigure]_vars

\* C27: the block size and the mode of an engine stay those given to new
\* whatever public operation is called, and the capacity of the buffer is the
\* one new chooses for the block size in use
C27_BlockSizeFixed ==
    /\ convolver[1].mode = "TimeDomain" /\ convolver[2].mode = "FrequencyDomain"
    /\ \A i \in Engines :
          /\ convolver[i].block_size = ConstructedBlockSize
          /\ Len(convolver[i].buffer)
                = Len(new(impulse, convolver[i].mode, convolver[i].block_size).buffer)

====
